---- MODULE Spec2Model ----
(***************************************************************************)
(* Model of the two project.pbxproj maintenance scripts of NoesisNoema:    *)
(*   scripts/fix_build_settings.py      (patch_block and main)             *)
(*   scripts/patch_xcframework_paths.py (module body: two re.sub, line     *)
(*                                       filter, rejoin, compare/write)    *)
(*                                                                         *)
(* A text is a sequence of tokens.  Each token is a literal piece of the   *)
(* file that the scripts' patterns either match as a whole or not at all,  *)
(* so that re.search, str.find, "in", re.sub, splitlines, strip and join   *)
(* are computed on token sequences exactly as Python computes them on the  *)
(* corresponding strings.                                                  *)
(* The texts read are all token sequences up to a bounded length; "\n" is  *)
(* the only line break among the tokens.                                   *)
(***************************************************************************)
EXTENDS Integers, Sequences, FiniteSets, TLC

\* ---------------------------------------------------------------- bounds
MaxLen == 4        \* longest initial text given to fix_build_settings.py
MaxPathLen == 5    \* longest initial text given to patch_xcframework_paths.py
MaxRuns == 2       \* invocations of a script on the same file

\* ------------------------------------------------- generic sequence helpers
Min(S) == CHOOSE x \in S : \A y \in S : x <= y

RECURSIVE StringsUpTo(_, _)
StringsUpTo(A, n) ==
    IF n = 0 THEN {<<>>}
    ELSE LET shorter == StringsUpTo(A, n - 1)
         IN  shorter \cup {Append(s, a) : s \in {t \in shorter : Len(t) = n - 1}, a \in A}

Count(s, T) == Cardinality({i \in 1..Len(s) : s[i] \in T})

\* str.find(tokens of T, from): first index >= from holding a token of T,
\* 0 when there is none (Python's -1; indices here are 1-based)
Find(s, T, from) ==
    LET hits == {i \in from..Len(s) : s[i] \in T}
    IN  IF hits = {} THEN 0 ELSE Min(hits)

\* ============================================================================
\* scripts/fix_build_settings.py
\* ============================================================================
IdA == "F41FD0242E2A467000909132"
IdB == "F41FD0272E2A467000909132"
ConfigIds == {IdA, IdB}

\* CONFIGS, one row for each combination of flags the table holds
\* (source rows 11 and 14), in the table's order
CONFIGS ==
    << [cid |-> IdA, name |-> "Project Debug",     swift |-> TRUE, infoplist |-> FALSE],
       [cid |-> IdB, name |-> "NoesisNoema Debug", swift |-> TRUE, infoplist |-> TRUE] >>

SWIFT_VERSION_LINE == "\t\t\t\tSWIFT_VERSION = 5.0;\n"
GENERATE_INFOPLIST_LINE == "\t\t\t\tGENERATE_INFOPLIST_FILE = YES;\n"

\* tokens of a project file as fix_build_settings.py sees it
\* a block header whose comment is closed at once, a block header whose comment
\* is not closed by the header itself, and the text that closes a comment and
\* opens a brace
OpenA == "\n\t\tF41FD0242E2A467000909132 /* Project Debug */ = {"
OpenB == "\n\t\tF41FD0272E2A467000909132 /* NoesisNoema Debug */ = {"
HeadA == "\n\t\tF41FD0242E2A467000909132 /* Project Debug"
HeadB == "\n\t\tF41FD0272E2A467000909132 /* NoesisNoema Debug"
CommentClose == " */ = {"
BuildSettingsMarker == "buildSettings = {"
ClosingTerminator == "\n\t\t\t};"
SwiftOther == "\t\t\t\tSWIFT_VERSION = 4.2;\n"
InfoplistOther == "\t\t\t\tGENERATE_INFOPLIST_FILE = NO;\n"
NL == "\n"

OpenTokens == {OpenA, OpenB}
HeadTokens == {HeadA, HeadB}
ClosesComment == {CommentClose, OpenA, OpenB}   \* tokens that end in " */ = {"
SwiftKeyTokens == {SwiftOther, SWIFT_VERSION_LINE}
InfoplistKeyTokens == {InfoplistOther, GENERATE_INFOPLIST_LINE}

PbxAlphabet ==
    {OpenA, OpenB, HeadA, HeadB, CommentClose,
     BuildSettingsMarker, ClosingTerminator, SwiftOther, InfoplistOther}
PbxTexts == StringsUpTo(PbxAlphabet, MaxLen)

\* the identifier a header token carries
IdOf(tok) ==
    IF tok \in {OpenA, HeadA} THEN IdA
    ELSE IF tok \in {OpenB, HeadB} THEN IdB
    ELSE ""

\* start_pat = \n\t\t<config_id> \/\* .+? \*\/ = \{  with re.DOTALL matches at i:
\* the header of config_id, then lazily anything up to the first " */ = {"
start_pat(text, config_id, i) ==
    /\ IdOf(text[i]) = config_id
    /\ \/ text[i] \in OpenTokens
       \/ text[i] \in HeadTokens /\ Find(text, ClosesComment, i + 1) # 0

\* "SWIFT_VERSION" in bs_content  /  "GENERATE_INFOPLIST_FILE" in bs_content
Contains(bs_content, KeyTokens) == \E i \in 1..Len(bs_content) : bs_content[i] \in KeyTokens

\* the three searches of patch_block; each is 0 when the search failed
\* m.start() and m.end() of start_pat.search(text) (m.end() as the last token matched)
MatchStart(text, config_id) ==
    LET hits == {i \in 1..Len(text) : start_pat(text, config_id, i)}
    IN  IF hits = {} THEN 0 ELSE Min(hits)
BlockMatch(text, config_id) ==
    LET m == MatchStart(text, config_id)
    IN  IF m = 0 THEN 0
        ELSE IF text[m] \in OpenTokens THEN m
        ELSE Find(text, ClosesComment, m + 1)
BsStart(text, config_id) ==
    LET m == BlockMatch(text, config_id)
    IN  IF m = 0 THEN 0 ELSE Find(text, {BuildSettingsMarker}, m + 1)
BsEnd(text, config_id) ==
    LET bs_start == BsStart(text, config_id)
    IN  IF bs_start = 0 THEN 0 ELSE Find(text, {ClosingTerminator}, bs_start)

\* bs_content = text[bs_content_start:bs_end]  (defined when BsEnd # 0)
BsContent(text, config_id) ==
    SubSeq(text, BsStart(text, config_id) + 1, BsEnd(text, config_id) - 1)

\* lines 47-52: the two conditional appends
EnsureNoSwiftCheck(bs_content, set_swift, set_infoplist) ==
    LET c1 == IF set_swift THEN bs_content \o <<NL, SWIFT_VERSION_LINE>> ELSE bs_content
    IN  IF set_infoplist /\ ~Contains(c1, InfoplistKeyTokens)
        THEN c1 \o <<NL, GENERATE_INFOPLIST_LINE>>
        ELSE c1

EnsureNoInfoplistCheck(bs_content, set_swift, set_infoplist) ==
    LET c1 == IF set_swift /\ ~Contains(bs_content, SwiftKeyTokens)
              THEN bs_content \o <<NL, SWIFT_VERSION_LINE>>
              ELSE bs_content
    IN  IF set_infoplist THEN c1 \o <<NL, GENERATE_INFOPLIST_LINE>> ELSE c1

EnsureSwiftTwice(bs_content, set_swift, set_infoplist) ==
    LET c1 == IF set_swift /\ ~Contains(bs_content, SwiftKeyTokens)
              THEN bs_content \o <<NL, SWIFT_VERSION_LINE, NL, SWIFT_VERSION_LINE>>
              ELSE bs_content
    IN  IF set_infoplist /\ ~Contains(c1, InfoplistKeyTokens)
        THEN c1 \o <<NL, GENERATE_INFOPLIST_LINE>>
        ELSE c1

EnsureSettings(bs_content, set_swift, set_infoplist) ==
    LET c1 == IF set_swift /\ ~Contains(bs_content, SwiftKeyTokens)
              THEN bs_content \o <<NL, SWIFT_VERSION_LINE>>
              ELSE bs_content
    IN  IF set_infoplist /\ ~Contains(c1, InfoplistKeyTokens)
        THEN c1 \o <<NL, GENERATE_INFOPLIST_LINE>>
        ELSE c1

\* patch_block without the  bs_end == -1  early return: the settings are
\* appended to everything that follows the marker
patch_block_NoEndCheck(text, config_id, set_swift, set_infoplist) ==
    LET bs_start == BsStart(text, config_id)
        bs_end   == BsEnd(text, config_id)
    IN  IF BlockMatch(text, config_id) = 0 THEN text
        ELSE IF bs_start = 0 THEN text
        ELSE IF bs_end = 0
             THEN SubSeq(text, 1, bs_start)
                  \o EnsureSettings(SubSeq(text, bs_start + 1, Len(text)), set_swift, set_infoplist)
        ELSE SubSeq(text, 1, bs_start)
             \o EnsureSettings(BsContent(text, config_id), set_swift, set_infoplist)
             \o SubSeq(text, bs_end, Len(text))

patch_block(text, config_id, set_swift, set_infoplist) ==
    LET bs_start == BsStart(text, config_id)
        bs_end   == BsEnd(text, config_id)
    IN  IF BlockMatch(text, config_id) = 0 THEN text
        ELSE IF bs_start = 0 THEN text
        ELSE IF bs_end = 0 THEN text
        ELSE SubSeq(text, 1, bs_start)
             \o EnsureSettings(BsContent(text, config_id), set_swift, set_infoplist)
             \o SubSeq(text, bs_end, Len(text))

\* ============================================================================
\* scripts/patch_xcframework_paths.py
\* ============================================================================
\* tokens of a project file as patch_xcframework_paths.py sees it
Frameworks == "Frameworks/"
Macos == "llama_macos.xcframework"
Ios == "llama_ios.xcframework"
Xcframeworks == "xcframeworks/"
Eq == "="
Sp == " "
Comma == ","
Word == "_extra"

Whitespace == {Sp, NL}               \* tokens matched by \s and removed by strip()
WordEndTokens == {Macos, Ios, Word}  \* tokens whose last character is a \w character

PathAlphabet == {Frameworks, Macos, Ios, Eq, Sp, NL, Comma, Word}
PathTexts == StringsUpTo(PathAlphabet, MaxPathLen)

\* \b before "Frameworks/": start of text or a non-word character before it
WordBoundary(s, i) == i = 1 \/ s[i - 1] \notin WordEndTokens

\* the trailing group written (\s*[=,]): a list separator is taken for context too
AssignEndOrComma(s, j) ==
    LET ends == {k \in j..Len(s) : s[k] \in {Eq, Comma} /\ \A l \in j..(k - 1) : s[l] \in Whitespace}
    IN  IF ends = {} THEN 0 ELSE Min(ends)

\* (\s*=) starting at index j: index of the "=" that ends it, 0 when no match
AssignEnd(s, j) ==
    LET ends == {k \in j..Len(s) : s[k] = Eq /\ \A l \in j..(k - 1) : s[l] \in Whitespace}
    IN  IF ends = {} THEN 0 ELSE Min(ends)

\* (\bFrameworks/)<name>(\s*=) matches at index i
MatchAt(s, name, i) ==
    /\ s[i] = Frameworks
    /\ WordBoundary(s, i)
    /\ i + 1 <= Len(s)
    /\ s[i + 1] = name
    /\ AssignEnd(s, i + 2) # 0

\* re.sub(pattern, r"\1xcframeworks/<name>\2", s): left-to-right, non-overlapping
RECURSIVE SubFrom(_, _, _)
SubFrom(s, name, i) ==
    IF i > Len(s) THEN <<>>
    ELSE IF MatchAt(s, name, i)
         THEN LET e == AssignEnd(s, i + 2)
              IN  <<Frameworks, Xcframeworks, name>> \o SubSeq(s, i + 2, e) \o SubFrom(s, name, e + 1)
         ELSE <<s[i]>> \o SubFrom(s, name, i + 1)

re_sub(name, s) == SubFrom(s, name, 1)

\* str.splitlines(): a final line break ends the last line, it opens no new one
RECURSIVE splitlines(_)
splitlines(s) ==
    IF s = <<>> THEN <<>>
    ELSE LET k == Find(s, {NL}, 1)
         IN  IF k = 0 THEN <<s>>
             ELSE <<SubSeq(s, 1, k - 1)>> \o splitlines(SubSeq(s, k + 1, Len(s)))

\* str.strip()
strip(line) ==
    LET solid == {i \in 1..Len(line) : line[i] \notin Whitespace}
    IN  IF solid = {} THEN <<>>
        ELSE SubSeq(line, Min(solid), CHOOSE x \in solid : \A y \in solid : y <= x)

StaleEntries == {<<Frameworks, Macos, Comma>>, <<Frameworks, Ios, Comma>>}

\* "l in {...}" tested on a prefix of the trimmed line instead of the whole of it
IsStalePrefix(line) ==
    \E e \in StaleEntries : Len(strip(line)) >= 2 /\ SubSeq(strip(line), 1, 2) = SubSeq(e, 1, 2)

IsStale(line) == strip(line) \in StaleEntries

\* lines 17-22: the loop that builds keep
RECURSIVE FilterLines(_)
FilterLines(ls) ==
    IF ls = <<>> THEN <<>>
    ELSE IF IsStale(Head(ls)) THEN FilterLines(Tail(ls))
         ELSE <<Head(ls)>> \o FilterLines(Tail(ls))

\* "\n".join(keep)
RECURSIVE join(_)
join(ks) ==
    IF ks = <<>> THEN <<>>
    ELSE IF Len(ks) = 1 THEN ks[1]
         ELSE ks[1] \o <<NL>> \o join(Tail(ks))

\* ============================================================================
\* state
\* ============================================================================
VARIABLES
    pbxproj,    \* contents of NoesisNoema.xcodeproj/project.pbxproj on disk
    pc,         \* position of the running script
    runs,       \* completed invocations of the script
    stdout,     \* what the current (or last) invocation printed
    orig,       \* both scripts: the text as read
    data,       \* fix_build_settings.main: the text threaded through patch_block
    cidx,       \* fix_build_settings.main: position of the loop over CONFIGS
    text,       \* patch_xcframework_paths: text; patch_block: its text argument
    lines,      \* patch_xcframework_paths: lines
    keep,       \* patch_xcframework_paths: keep
    args,       \* patch_block: config_id, set_swift, set_infoplist of the call
    new_text,   \* patch_block: the value returned
    again       \* patch_block: the value returned for (new_text, same arguments)

vars == <<pbxproj, pc, runs, stdout, orig, data, cidx, text, lines, keep, args, new_text, again>>

NoArgs == [config_id |-> "", set_swift |-> FALSE, set_infoplist |-> FALSE]

PatchedHeader == "Patched:"
UpToDateMsg == "No changes applied (already up to date?)"
PathsPatchedMsg == "Patched project.pbxproj: removed old llama_* xcframework references and updated attributes to xcframeworks/* paths"
PathsCleanMsg == "No changes made (already clean)"

\* ----------------------------------------------------------------------------
\* SpecPatch: patch_block called on an arbitrary text, then on its own result
\* ----------------------------------------------------------------------------
InitPatch ==
    /\ text \in PbxTexts
    /\ pc = "call"
    /\ args = NoArgs
    /\ new_text = <<>>
    /\ again = <<>>
    /\ pbxproj = <<>> /\ runs = 0 /\ stdout = <<>> /\ orig = <<>> /\ data = <<>>
    /\ cidx = 0 /\ lines = <<>> /\ keep = <<>>

Call(config_id, set_swift, set_infoplist) ==
    /\ pc = "call"
    /\ args' = [config_id |-> config_id, set_swift |-> set_swift, set_infoplist |-> set_infoplist]
    /\ new_text' = patch_block(text, config_id, set_swift, set_infoplist)
    /\ pc' = "returned"
    /\ UNCHANGED <<pbxproj, runs, stdout, orig, data, cidx, text, lines, keep, again>>

CallAgain ==
    /\ pc = "returned"
    /\ again' = patch_block(new_text, args.config_id, args.set_swift, args.set_infoplist)
    /\ pc' = "repatched"
    /\ UNCHANGED <<pbxproj, runs, stdout, orig, data, cidx, text, lines, keep, args, new_text>>

NextPatch ==
    \/ \E config_id \in ConfigIds, set_swift \in BOOLEAN, set_infoplist \in BOOLEAN :
           Call(config_id, set_swift, set_infoplist)
    \/ CallAgain

SpecPatch == InitPatch /\ [][NextPatch]_vars

\* ----------------------------------------------------------------------------
\* SpecMain: fix_build_settings.main(), invoked up to MaxRuns times on the file
\* ----------------------------------------------------------------------------
InitMain ==
    /\ pbxproj \in PbxTexts
    /\ pc = "idle"
    /\ runs = 0
    /\ stdout = <<>>
    /\ orig = <<>> /\ data = <<>> /\ cidx = 0
    /\ text = <<>> /\ lines = <<>> /\ keep = <<>>
    /\ args = NoArgs /\ new_text = <<>> /\ again = <<>>

\* lines 59-60
MainRead ==
    /\ pc = "idle"
    /\ runs < MaxRuns
    /\ data' = pbxproj
    /\ orig' = pbxproj
    /\ cidx' = 1
    /\ stdout' = <<>>
    /\ pc' = "patching"
    /\ UNCHANGED <<pbxproj, runs, text, lines, keep, args, new_text, again>>

\* lines 61-62, one iteration
MainPatch ==
    /\ pc = "patching"
    /\ cidx <= Len(CONFIGS)
    /\ data' = patch_block(data, CONFIGS[cidx].cid, CONFIGS[cidx].swift, CONFIGS[cidx].infoplist)
    /\ cidx' = cidx + 1
    /\ UNCHANGED <<pbxproj, pc, runs, stdout, orig, text, lines, keep, args, new_text, again>>

\* lines 65-67: the header and one line per entry of CONFIGS
Report ==
    LET F[k \in 0..Len(CONFIGS)] ==
            IF k = 0 THEN <<PatchedHeader>> ELSE Append(F[k - 1], CONFIGS[k].cid)
    IN  F[Len(CONFIGS)]

\* lines 63-69
MainFinish ==
    /\ pc = "patching"
    /\ cidx > Len(CONFIGS)
    /\ IF data # orig
       THEN pbxproj' = data /\ stdout' = Report
       ELSE pbxproj' = pbxproj /\ stdout' = <<UpToDateMsg>>
    /\ pc' = "idle"
    /\ runs' = runs + 1
    /\ UNCHANGED <<orig, data, cidx, text, lines, keep, args, new_text, again>>

NextMain == MainRead \/ MainPatch \/ MainFinish

SpecMain == InitMain /\ [][NextMain]_vars

\* ----------------------------------------------------------------------------
\* SpecPaths: patch_xcframework_paths.py, invoked up to MaxRuns times on the file
\* ----------------------------------------------------------------------------
InitPaths ==
    /\ pbxproj \in PathTexts
    /\ pc = "idle"
    /\ runs = 0
    /\ stdout = <<>>
    /\ orig = <<>> /\ text = <<>> /\ lines = <<>> /\ keep = <<>>
    /\ data = <<>> /\ cidx = 0
    /\ args = NoArgs /\ new_text = <<>> /\ again = <<>>

\* lines 8-9
PathsRead ==
    /\ pc = "idle"
    /\ runs < MaxRuns
    /\ text' = pbxproj
    /\ orig' = pbxproj
    /\ lines' = <<>>
    /\ keep' = <<>>
    /\ stdout' = <<>>
    /\ pc' = "sub_macos"
    /\ UNCHANGED <<pbxproj, runs, data, cidx, args, new_text, again>>

\* line 12
SubMacos ==
    /\ pc = "sub_macos"
    /\ text' = re_sub(Macos, text)
    /\ pc' = "sub_ios"
    /\ UNCHANGED <<pbxproj, runs, stdout, orig, data, cidx, lines, keep, args, new_text, again>>

\* line 13
SubIos ==
    /\ pc = "sub_ios"
    /\ text' = re_sub(Ios, text)
    /\ pc' = "filter"
    /\ UNCHANGED <<pbxproj, runs, stdout, orig, data, cidx, lines, keep, args, new_text, again>>

\* lines 16-23
FilterAndJoin ==
    /\ pc = "filter"
    /\ lines' = splitlines(text)
    /\ keep' = FilterLines(lines')
    /\ text' = join(keep')
    /\ pc' = "compare"
    /\ UNCHANGED <<pbxproj, runs, stdout, orig, data, cidx, args, new_text, again>>

\* lines 25-29
PathsFinish ==
    /\ pc = "compare"
    /\ IF text # orig
       THEN pbxproj' = text /\ stdout' = <<PathsPatchedMsg>>
       ELSE pbxproj' = pbxproj /\ stdout' = <<PathsCleanMsg>>
    /\ pc' = "idle"
    /\ runs' = runs + 1
    /\ UNCHANGED <<orig, data, cidx, text, lines, keep, args, new_text, again>>

NextPaths == PathsRead \/ SubMacos \/ SubIos \/ FilterAndJoin \/ PathsFinish

SpecPaths == InitPaths /\ [][NextPaths]_vars

\* ============================================================================
\* properties of patch_block (SpecPatch)
\* ============================================================================
\* a configuration block: from its header up to the next block header
BlockText(t, config_id) ==
    LET nxt == Find(t, OpenTokens \cup HeadTokens, BlockMatch(t, config_id) + 1)
    IN  SubSeq(t, MatchStart(t, config_id), IF nxt = 0 THEN Len(t) ELSE nxt - 1)

\* C3 (Disjointness): when the text holds a block for the patched identifier and
\* a block for another identifier, patch_block called with the first identifier
\* leaves every byte of the other block, its SettingsRegion included, unchanged.
C3_Disjointness ==
    pc = "returned" =>
        \A other \in ConfigIds \ {args.config_id} :
            (BlockMatch(text, args.config_id) # 0 /\ BlockMatch(text, other) # 0) =>
                /\ BlockMatch(new_text, other) # 0
                /\ BlockText(new_text, other) = BlockText(text, other)

\* C4 (Idempotence of patch_block): for every text, identifier and pair of flags,
\* patching the patched text again with the same arguments returns it unchanged.
C4_Idempotent == pc = "repatched" => again = new_text

C4_Witness ==
    /\ pc = "repatched"
    /\ new_text # text
    /\ args.set_swift /\ args.set_infoplist
    /\ Contains(BsContent(text, args.config_id), SwiftKeyTokens)

\* the case C5 is about: region found and closed, SWIFT_VERSION required and absent
SwiftMissing ==
    /\ BsEnd(text, args.config_id) # 0
    /\ args.set_swift
    /\ ~Contains(BsContent(text, args.config_id), SwiftKeyTokens)

InfoplistAlsoAppended ==
    /\ args.set_infoplist
    /\ ~Contains(BsContent(text, args.config_id), InfoplistKeyTokens)

C6_NonDuplication ==
    (pc = "returned" /\ BsEnd(text, args.config_id) # 0) =>
        LET before == BsContent(text, args.config_id)
            after  == BsContent(new_text, args.config_id)
        IN  /\ (args.set_swift /\ Contains(before, SwiftKeyTokens)) =>
                   /\ Count(after, SwiftKeyTokens) = Count(before, SwiftKeyTokens)
                   /\ Count(new_text, SwiftKeyTokens) = Count(text, SwiftKeyTokens)
            /\ (args.set_infoplist /\ Contains(before, InfoplistKeyTokens)) =>
                   /\ Count(after, InfoplistKeyTokens) = Count(before, InfoplistKeyTokens)
                   /\ Count(new_text, InfoplistKeyTokens) = Count(text, InfoplistKeyTokens)

C6_Witness ==
    /\ pc = "returned"
    /\ BsEnd(text, args.config_id) # 0
    /\ args.set_swift /\ args.set_infoplist
    /\ Contains(BsContent(text, args.config_id), InfoplistKeyTokens)
    /\ ~Contains(BsContent(text, args.config_id), SwiftKeyTokens)
    /\ new_text # text

\* C7 (Missing structure is a no-op): when the block opening is not found, or no
\* buildSettings marker follows it, or no closing terminator follows the marker,
\* patch_block returns its input.
C7_MissingStructureNoOp ==
    pc = "returned" =>
        LET closes(i) == {j \in (i + 1)..Len(text) : text[j] \in ClosesComment}
            opens   == {i \in 1..Len(text) :
                           /\ IdOf(text[i]) = args.config_id
                           /\ text[i] \in HeadTokens => closes(i) # {}}
            opened  == IF text[Min(opens)] \in HeadTokens THEN Min(closes(Min(opens))) ELSE Min(opens)
            markers == {i \in 1..Len(text) : text[i] = BuildSettingsMarker /\ opens # {} /\ i > opened}
            closers == {i \in 1..Len(text) : text[i] = ClosingTerminator /\ markers # {} /\ i > Min(markers)}
        IN  (opens = {} \/ markers = {} \/ closers = {}) => new_text = text

C7_Witness ==
    /\ pc = "returned"
    /\ BsStart(text, args.config_id) # 0
    /\ BsEnd(text, args.config_id) = 0
    /\ args.set_swift
    /\ ~Contains(text, SwiftKeyTokens)
    /\ new_text = text

\* ============================================================================
\* properties of fix_build_settings.main (SpecMain)
\* ============================================================================
\* main's data after the first k entries of CONFIGS, recomputed from orig
RECURSIVE Thread(_, _)
Thread(t, k) ==
    IF k = 0 THEN t
    ELSE patch_block(Thread(t, k - 1), CONFIGS[k].cid, CONFIGS[k].swift, CONFIGS[k].infoplist)

\* the report that names exactly the entries whose call changed the text
ChangedOnlyReport ==
    LET changed == {k \in 1..Len(CONFIGS) : Thread(orig, k) # Thread(orig, k - 1)}
        F[k \in 0..Len(CONFIGS)] ==
            IF k = 0 THEN <<PatchedHeader>>
            ELSE IF k \in changed THEN Append(F[k - 1], CONFIGS[k].cid) ELSE F[k - 1]
    IN  F[Len(CONFIGS)]

\* C10 (Change report): after a run that changed the text the report lists exactly
\* the blocks that received a setting in this run and the file holds the new
\* text; after a run that changed nothing the no-changes message is printed and
\* the file is not written.
C10_ReportListsChanged ==
    (pc = "idle" /\ runs >= 1) =>
        IF data # orig
        THEN stdout = ChangedOnlyReport /\ pbxproj = data
        ELSE stdout = <<UpToDateMsg>> /\ pbxproj = orig

\* ============================================================================
\* properties of patch_xcframework_paths.py (SpecPaths)
\* ============================================================================
\* the legacy path <name> at index i is followed by optional blanks and "="
RECURSIVE FollowedByAssignment(_, _)
FollowedByAssignment(t, j) ==
    /\ j <= Len(t)
    /\ \/ t[j] = Eq
       \/ t[j] \in {Sp, NL} /\ FollowedByAssignment(t, j + 1)

LegacyAt(t, name, i) == i + 1 <= Len(t) /\ t[i] = Frameworks /\ t[i + 1] = name

\* the trimmed form of the line is exactly a stale list entry
TrimmedIsStale(line) ==
    \E i \in 1..Len(line) :
        /\ i + 2 <= Len(line)
        /\ line[i] = Frameworks /\ line[i + 1] \in {Macos, Ios} /\ line[i + 2] = Comma
        /\ \A k \in 1..Len(line) : (k < i \/ k > i + 2) => line[k] = Sp

\* the lines of a text: its maximal pieces free of line breaks, where a final
\* line break does not open a further line
LineCount(t) == Count(t, {NL}) + (IF t # <<>> /\ t[Len(t)] # NL THEN 1 ELSE 0)
LineOf(t, n) ==
    LET brk(k) == IF k = 0 THEN 0
                  ELSE Min({i \in 1..Len(t) : t[i] = NL /\ Count(SubSeq(t, 1, i), {NL}) = k})
        last   == IF n <= Count(t, {NL}) THEN brk(n) - 1 ELSE Len(t)
    IN  SubSeq(t, brk(n - 1) + 1, last)

\* C1 (Idempotence of rewritePaths): running the substitutions, the filter and
\* the rejoin on a text that a previous run produced yields that same text.
C1_Idempotent == (pc = "compare" /\ runs >= 1) => text = orig

\* C2 (Clean input is left byte-identical): for a text with no legacy path
\* followed by an assignment and no stale line, the rewritten text equals the text
\* read, the file is not written and the no-changes message is printed.
CleanInput(t) ==
    /\ \A i \in 1..Len(t), name \in {Macos, Ios} :
           ~(LegacyAt(t, name, i) /\ FollowedByAssignment(t, i + 2))
    /\ \A n \in 1..LineCount(t) : ~TrimmedIsStale(LineOf(t, n))

C2_CleanUnchanged ==
    /\ (pc = "compare" /\ CleanInput(orig)) => text = orig
    /\ (pc = "idle" /\ runs >= 1 /\ CleanInput(orig)) =>
           (stdout = <<PathsCleanMsg>> /\ pbxproj = orig)

\* t with "xcframeworks/" inserted after every index of S
RECURSIVE InsertAfter(_, _, _)
InsertAfter(t, S, i) ==
    IF i > Len(t) THEN <<>>
    ELSE (IF i \in S THEN <<t[i], Xcframeworks>> ELSE <<t[i]>>) \o InsertAfter(t, S, i + 1)

ScopedRewrite(t, t2, name) ==
    \E S \in SUBSET {i \in 1..Len(t) : LegacyAt(t, name, i) /\ FollowedByAssignment(t, i + 2)} :
        t2 = InsertAfter(t, S, 1)

\* C8 (Scoped substitution): each of the two substitutions changes the text only
\* by inserting "xcframeworks/" into occurrences of its legacy path that are
\* followed by the assignment context; the context and every other byte,
\* occurrences without the context included, stay as they were.
C8_ScopedSubstitution ==
    [][ /\ pc = "sub_macos" => ScopedRewrite(text, text', Macos)
        /\ pc = "sub_ios" => ScopedRewrite(text, text', Ios) ]_vars

C8_Witness ==
    /\ pc = "filter"
    /\ Count(text, {Xcframeworks}) = 1
    /\ Count(orig, {Xcframeworks}) = 0
    /\ \E i \in 1..Len(text), name \in {Macos, Ios} :
           LegacyAt(text, name, i) /\ ~FollowedByAssignment(text, i + 2)

\* C9 (Exact-match deletion): keep is lines without the lines whose trimmed form
\* is exactly a stale entry: a line is dropped if and only if it is one, every
\* other line is kept as it is, and the kept lines keep their order.
C9_ExactMatchDeletion ==
    pc = "compare" =>
        LET kept == {i \in 1..Len(lines) : ~TrimmedIsStale(lines[i])}
            rank(i) == Cardinality({j \in kept : j <= i})
        IN  /\ Len(keep) = Cardinality(kept)
            /\ \A i \in kept : keep[rank(i)] = lines[i]

C9_Witness ==
    /\ pc = "compare"
    /\ Len(keep) < Len(lines)
    /\ \E i \in 1..Len(lines) : TrimmedIsStale(lines[i]) /\ lines[i][1] = Sp
    /\ keep # <<>>

====
